---- MODULE Spec2Model ----
(***************************************************************************)
(* FrameworkGPT: the paragraph-aware overlapping chunker and the indexer   *)
(* of index_documents.py, and the retrieval-augmented query pipeline of    *)
(* rag_engine.py.                                                          *)
(*                                                                         *)
(* Text is a sequence of one-character strings, so that len(), slicing,    *)
(* strip() and split() are computed as Python computes them.               *)
(***************************************************************************)
EXTENDS Integers, Sequences, FiniteSets, TLC

(***************************************************************************)
(* Python string primitives                                                *)
(***************************************************************************)
NL == "\n"
SP == " "
NLNL == <<NL, NL>>
Ellipsis == <<".", ".", ".">>

\* str.isspace() of one character
IsSpace(c) == c \in {SP, NL, "\t"}

Min2(a, b) == IF a <= b THEN a ELSE b
Max2(a, b) == IF a >= b THEN a ELSE b

\* c * n
Rep(c, n) == [i \in 1..n |-> c]

\* s[:n]
Prefix(s, n) == SubSeq(s, 1, Min2(n, Len(s)))

\* s.startswith(p)
StartsWith(s, p) == Len(p) <= Len(s) /\ SubSeq(s, 1, Len(p)) = p

\* p in s
Contains(s, p) ==
    \/ p = <<>>
    \/ \E i \in 1..(Len(s) - Len(p) + 1) :
          s[i] = p[1] /\ SubSeq(s, i, i + Len(p) - 1) = p

\* s.strip(): leading and trailing whitespace removed
strip(s) ==
    LET n == Len(s)
        lead == CHOOSE k \in 0..n :
                   /\ \A j \in 1..k : IsSpace(s[j])
                   /\ (k = n \/ ~IsSpace(s[k + 1]))
        trail == CHOOSE k \in 0..n :
                   /\ \A j \in (n - k + 1)..n : IsSpace(s[j])
                   /\ (k = n \/ ~IsSpace(s[n - k]))
    IN  IF lead = n THEN <<>> ELSE SubSeq(s, lead + 1, n - trail)

\* the indices in lo..hi at which a word of s starts, ascending
RECURSIVE WordStarts(_, _, _)
WordStarts(s, lo, hi) ==
    IF lo > hi THEN <<>>
    ELSE IF lo = hi
         THEN IF ~IsSpace(s[lo]) /\ (lo = 1 \/ IsSpace(s[lo - 1]))
              THEN <<lo>> ELSE <<>>
         ELSE LET mid == (lo + hi) \div 2
              IN  WordStarts(s, lo, mid) \o WordStarts(s, mid + 1, hi)

\* the index at which the word of s starting at st ends
WordEnd(s, st) ==
    CHOOSE e \in st..Len(s) :
        /\ (e = Len(s) \/ IsSpace(s[e + 1]))
        /\ \A j \in st..e : ~IsSpace(s[j])

\* s.split(): the maximal runs of non-whitespace, in order
split_ws(s) ==
    LET starts == WordStarts(s, 1, Len(s))
    IN  [k \in 1..Len(starts) |-> SubSeq(s, starts[k], WordEnd(s, starts[k]))]

\* sep.join(ws[lo..hi])
RECURSIVE JoinRange(_, _, _, _)
JoinRange(sep, ws, lo, hi) ==
    IF lo > hi THEN <<>>
    ELSE IF lo = hi THEN ws[lo]
         ELSE LET mid == (lo + hi) \div 2
              IN  JoinRange(sep, ws, lo, mid) \o sep \o JoinRange(sep, ws, mid + 1, hi)

\* sep.join(ws)
join(sep, ws) == JoinRange(sep, ws, 1, Len(ws))

\* ws[-n:] for n > 0
LastN(ws, n) == SubSeq(ws, Max2(1, Len(ws) - n + 1), Len(ws))

\* s.split("\n\n") from position from on: leftmost, non-overlapping separators
RECURSIVE SplitFrom(_, _)
SplitFrom(s, from) ==
    LET seps == {i \in from..(Len(s) - 1) : s[i] = NL /\ s[i + 1] = NL}
    IN  IF seps = {} THEN <<SubSeq(s, from, Len(s))>>
        ELSE LET i == CHOOSE x \in seps : \A y \in seps : x <= y
             IN  <<SubSeq(s, from, i - 1)>> \o SplitFrom(s, i + 2)

\* content.split("\n\n")
split_paragraphs(s) == SplitFrom(s, 1)

(***************************************************************************)
(* DocumentProcessor configuration                                         *)
(***************************************************************************)
chunk_size == 1000
chunk_overlap == 200
SummaryLen == 200

(***************************************************************************)
(* DocumentProcessor._chunk_document                                       *)
(***************************************************************************)
\* a variant that forgets the accumulator: only the paragraph is measured
Fits_ParagraphOnly(current_chunk, paragraph) ==
    Len(paragraph) <= chunk_size

\* the accumulate-or-emit test
Fits(current_chunk, paragraph) ==
    Len(current_chunk) + Len(paragraph) <= chunk_size

\* the chunk dictionary built from the accumulator
MakeChunk(document, chunk_number, current_chunk) ==
    [url |-> document.url,
     chunk_number |-> chunk_number,
     title |-> document.title,
     content |-> strip(current_chunk),
     summary |-> Prefix(current_chunk, SummaryLen) \o Ellipsis,
     metadata |-> document.metadata]

\* a variant that carries the first words, words[:chunk_overlap]
overlap_text_FirstWords(current_chunk) ==
    LET words == split_ws(current_chunk)
    IN  IF words # <<>>
        THEN join(<<SP>>, SubSeq(words, 1, Min2(chunk_overlap, Len(words))))
        ELSE <<>>

\* the overlap carried into the next accumulator
overlap_text(current_chunk) ==
    LET words == split_ws(current_chunk)
    IN  IF words # <<>> THEN join(<<SP>>, LastN(words, chunk_overlap)) ELSE <<>>

\* a variant that counts a chunk even when the accumulator was empty
LoopBody_AlwaysCounts(document, st, paragraph) ==
    IF Fits(st.current_chunk, paragraph)
    THEN [st EXCEPT !.current_chunk = @ \o paragraph \o NLNL]
    ELSE [current_chunk |-> overlap_text(st.current_chunk) \o NLNL \o paragraph \o NLNL,
          chunk_number |-> st.chunk_number + 1,
          chunks |-> IF st.current_chunk # <<>>
                     THEN Append(st.chunks,
                                 MakeChunk(document, st.chunk_number, st.current_chunk))
                     ELSE st.chunks]

\* a variant that seeds the next accumulator with the overlap alone
LoopBody_DropsParagraph(document, st, paragraph) ==
    IF Fits(st.current_chunk, paragraph)
    THEN [st EXCEPT !.current_chunk = @ \o paragraph \o NLNL]
    ELSE [current_chunk |-> overlap_text(st.current_chunk) \o NLNL,
          chunk_number |-> IF st.current_chunk # <<>>
                           THEN st.chunk_number + 1 ELSE st.chunk_number,
          chunks |-> IF st.current_chunk # <<>>
                     THEN Append(st.chunks,
                                 MakeChunk(document, st.chunk_number, st.current_chunk))
                     ELSE st.chunks]

\* one iteration of the loop over the paragraphs, on the loop's state
LoopBody(document, st, paragraph) ==
    IF Fits(st.current_chunk, paragraph)
    THEN [st EXCEPT !.current_chunk = @ \o paragraph \o NLNL]
    ELSE [current_chunk |-> overlap_text(st.current_chunk) \o NLNL \o paragraph \o NLNL,
          chunk_number |-> IF st.current_chunk # <<>>
                           THEN st.chunk_number + 1 ELSE st.chunk_number,
          chunks |-> IF st.current_chunk # <<>>
                     THEN Append(st.chunks,
                                 MakeChunk(document, st.chunk_number, st.current_chunk))
                     ELSE st.chunks]

\* a variant that returns without the last accumulator
LastChunk_Dropped(document, st) == st.chunks

\* the final chunk
LastChunk(document, st) ==
    IF st.current_chunk # <<>>
    THEN Append(st.chunks, MakeChunk(document, st.chunk_number, st.current_chunk))
    ELSE st.chunks

LoopInit == [current_chunk |-> <<>>, chunk_number |-> 0, chunks |-> <<>>]

RECURSIVE LoopFrom(_, _, _, _)
LoopFrom(document, paragraphs, i, st) ==
    IF i > Len(paragraphs) THEN st
    ELSE LoopFrom(document, paragraphs, i + 1, LoopBody(document, st, paragraphs[i]))

\* the whole function: the chunks of one document
_chunk_document(document) ==
    LastChunk(document,
              LoopFrom(document, split_paragraphs(document.content), 1, LoopInit))

(***************************************************************************)
(* Input documents of the chunker                                          *)
(***************************************************************************)
MaxParas == 3

P_empty == <<>>
P_10 == Rep("a", 10)
P_990 == Rep("b", chunk_size - 10)
P_over == Rep("c", chunk_size + 1)
\* more words than chunk_overlap, of three kinds so that their order shows
P_words ==
    [i \in 1..(2 * (chunk_overlap + 50) - 1) |->
        IF i % 2 = 0 THEN SP
        ELSE IF ((i + 1) \div 2) % 3 = 0 THEN "d"
             ELSE IF ((i + 1) \div 2) % 3 = 1 THEN "e" ELSE "f"]
\* a paragraph that begins and ends with whitespace
P_indent == <<NL, SP, "z", SP>>

Palette == {P_empty, P_10, P_990, P_over, P_words, P_indent}

ParagraphLists == UNION {[1..n -> Palette] : n \in 1..MaxParas}

ChunkerInputs == {join(NLNL, ps) : ps \in ParagraphLists}

TestDocument(text) ==
    [content |-> text, url |-> "u", title |-> "t", metadata |-> [framework |-> "x"]]

(***************************************************************************)
(* DocumentProcessor: reading, chunking and storing one framework          *)
(***************************************************************************)
batch_size == 50

\* the document objects _read_markdown_files builds from the readable files
ReadDocuments(framework, files) ==
    [k \in 1..Len(files) |->
        [content |-> files[k].content,
         url |-> files[k].url,
         title |-> files[k].title,
         metadata |-> [framework |-> framework]]]

\* all_chunks of process_framework: the chunks of every document, in order
RECURSIVE AllChunksFrom(_, _, _)
AllChunksFrom(documents, lo, hi) ==
    IF lo > hi THEN <<>>
    ELSE IF lo = hi THEN _chunk_document(documents[lo])
         ELSE LET mid == (lo + hi) \div 2
              IN  AllChunksFrom(documents, lo, mid)
                      \o AllChunksFrom(documents, mid + 1, hi)

AllChunks(documents) == AllChunksFrom(documents, 1, Len(documents))

\* a variant that takes everything from i on as one batch
Batch_WholeRest(chunks, i) == SubSeq(chunks, i + 1, Len(chunks))

\* a variant whose slice ends one chunk early
Batch_OneShort(chunks, i) ==
    SubSeq(chunks, i + 1, Min2(i + batch_size - 1, Len(chunks)))

\* chunks[i:i + batch_size], i counted from 0
Batch(chunks, i) == SubSeq(chunks, i + 1, Min2(i + batch_size, Len(chunks)))

\* the row the store keeps for an embedded chunk; id is the table's serial
\* key, run the process_framework call that inserted it (history only)
StoredRow(chunk, id, run) ==
    [id |-> id,
     run |-> run,
     url |-> chunk.url,
     chunk_number |-> chunk.chunk_number,
     title |-> chunk.title,
     content |-> chunk.content,
     summary |-> chunk.summary,
     metadata |-> chunk.metadata,
     embedding |-> TRUE]

\* a variant that stores the first row of the batch only
InsertRows_FirstOnly(rows, batch, first_id, run) ==
    IF batch = <<>> THEN rows ELSE rows \cup {StoredRow(batch[1], first_id, run)}

\* table("site_pages").insert(batch)
InsertRows(rows, batch, first_id, run) ==
    rows \cup {StoredRow(batch[k], first_id + k - 1, run) : k \in 1..Len(batch)}

\* a variant without the filter
DeleteFramework_All(rows, framework) == {}

\* a variant whose filter matches no row
DeleteFramework_Nothing(rows, framework) == rows

\* table("site_pages").delete().eq("metadata->>framework", framework)
DeleteFramework(rows, framework) ==
    {row \in rows : row.metadata.framework # framework}

\* the position process_framework takes after reading the documents
AfterRead(documents) == IF documents = <<>> THEN "skipped" ELSE "delete"

(***************************************************************************)
(* RAGEngine                                                               *)
(***************************************************************************)
top_k == 8

\* Optional[str]
None == <<>>
Some(v) == <<v>>

\* framework.lower()
lower(f) == CASE f = "X" -> "x" [] f = "Y" -> "y" [] OTHER -> f

\* the exceptions raised by _generate_embedding, retrieve_documents and
\* generate_response, as their messages
EmbeddingError(m) == "Error generating embedding: " \o m
RetrievalError_DropsMessage(m) == "Error in document retrieval"
RetrievalError(m) == "Error in document retrieval: " \o m
GenerationError(m) == "Error in response generation: " \o m

NoDocumentsAnswer ==
    "No relevant documents were found. Please try rephrasing your question or ask about a different topic."

\* "\n".join(lines[k..])
RECURSIVE JoinLines(_, _)
JoinLines(lines, k) ==
    IF k > Len(lines) THEN ""
    ELSE IF k = Len(lines) THEN lines[k]
         ELSE lines[k] \o "\n" \o JoinLines(lines, k + 1)

\* a variant that lists every source once
RECURSIVE DistinctSources(_, _)
DistinctSources(chunks, k) ==
    IF k > Len(chunks) THEN <<>>
    ELSE IF \E j \in 1..(k - 1) : chunks[j] = chunks[k]
         THEN DistinctSources(chunks, k + 1)
         ELSE <<chunks[k]>> \o DistinctSources(chunks, k + 1)

format_sources_Deduplicated(chunks) ==
    LET cs == DistinctSources(chunks, 1)
    IN  JoinLines([k \in 1..Len(cs) |->
                      "- [" \o cs[k].title \o "](" \o cs[k].url \o ")"], 1)

format_sources(chunks) ==
    JoinLines([k \in 1..Len(chunks) |->
                  "- [" \o chunks[k].title \o "](" \o chunks[k].url \o ")"], 1)

\* the three results query returns
EmptyResult == [answer |-> NoDocumentsAnswer, sources |-> "", error |-> None]
SuccessResult(response, chunks) ==
    [answer |-> response, sources |-> format_sources(chunks), error |-> None]
\* a variant that also shows the message as the answer
ErrorResult_AnswerIsMessage(message) ==
    [answer |-> message, sources |-> "", error |-> Some(message)]
ErrorResult(message) == [answer |-> "", sources |-> "", error |-> Some(message)]

\* the rows of the set rows, in id order
RECURSIVE SortedById(_, _, _)
SortedById(rows, lo, hi) ==
    IF rows = {} THEN <<>>
    ELSE IF lo = hi THEN <<CHOOSE r \in rows : TRUE>>
         ELSE LET mid == (lo + hi) \div 2
              IN  SortedById({r \in rows : r.id <= mid}, lo, mid)
                      \o SortedById({r \in rows : r.id > mid}, mid + 1, hi)

ById(rows) ==
    IF rows = {} THEN <<>>
    ELSE LET ids == {r.id : r \in rows}
         IN  SortedById(rows,
                        CHOOSE i \in ids : \A j \in ids : i <= j,
                        CHOOSE i \in ids : \A j \in ids : i >= j)

\* the rows match_documents filters on: metadata framework = framework_filter
Matching(rows, framework_filter) ==
    {row \in rows : row.metadata.framework = framework_filter}

\* c rows of the sequence m, cyclically from position o on
Window(m, o, c) == [k \in 1..c |-> m[((o + k - 2) % Len(m)) + 1]]

\* what match_documents may return: at most match_count of the matching rows.
\* The ranking is the store's: any run of the matching rows (in id order,
\* cyclically, from any row) stands for it.
SearchResults(rows, match_count, framework_filter) ==
    LET m == ById(Matching(rows, framework_filter))
    IN  {<<>>} \cup {Window(m, o, c) : o \in 1..Len(m),
                                      c \in 1..Min2(match_count, Len(m))}

\* two of these answers and the empty one: the first match_count matching
\* rows, and the last matching row followed by the first ones
SearchSamples(rows, match_count, framework_filter) ==
    LET m == ById(Matching(rows, framework_filter))
    IN  {<<>>} \cup {Window(m, o, Min2(match_count, Len(m))) : o \in {1, Len(m)} \ {0}}

\* query: the position before a question is asked
QueryIdle ==
    [pc |-> "idle", framework |-> "", calls |-> <<>>, chunks |-> None,
     generated |-> None, failure |-> None, result |-> None]

\* query returns res
Return(q0, res) == [q0 EXCEPT !.pc = "returned", !.result = Some(res)]

\* a variant that starts the pipeline again after a failure
Catch_Retries(q0, message) == [q0 EXCEPT !.pc = "embedding"]

\* a variant that logs the exception and raises it again
Catch_Reraises(q0, message) == [q0 EXCEPT !.pc = "raised"]

\* query's except clause: the exception's message becomes the error
Catch(q0, message) == Return(q0, ErrorResult(message))

\* a variant without the early return on an empty result
AfterRetrieve_NoEarlyExit(q0, cs) ==
    [q0 EXCEPT !.pc = "generating", !.chunks = Some(cs)]

\* query after retrieve_documents returned cs
AfterRetrieve(q0, cs) ==
    IF cs = <<>>
    THEN Return([q0 EXCEPT !.chunks = Some(cs)], EmptyResult)
    ELSE [q0 EXCEPT !.pc = "generating", !.chunks = Some(cs)]

(***************************************************************************)
(* Inputs of the system                                                    *)
(***************************************************************************)
MaxRuns == 2
MaxQueries == 2

IndexFrameworks == {"x", "y"}
QueryFrameworks == {"X", "y"}

F_a == [content |-> <<"a">>, url |-> "u1", title |-> "t1"]
F_b == [content |-> <<"b", SP, "b">>, url |-> "u2", title |-> "t2"]
F_empty == [content |-> <<>>, url |-> "u3", title |-> "t3"]

\* the readable files of a framework's latest directory
FileBatches == {<<>>, <<F_a>>, <<F_b, F_empty>>}

\* n readable files of one short paragraph each, every one its own page
PageFiles(n) ==
    [k \in 1..n |-> [content |-> <<"a">>,
                     url |-> "u" \o ToString(k),
                     title |-> "t" \o ToString(k)]]

\* directories of no file, of exactly one batch, and of two batches and a chunk
LargeFileBatches ==
    {PageFiles(0), PageFiles(batch_size), PageFiles(2 * batch_size + 1)}

\* the chunks handed to format_sources: two chunks of one page, and a page
\* with the same title at another address
MaxSources == 4
Sources == {[title |-> "t1", url |-> "u1"],
            [title |-> "t2", url |-> "u2"],
            [title |-> "t1", url |-> "u3"]}
SourceLists == UNION {[1..n -> Sources] : n \in 0..MaxSources}

\* str(e) of an upstream failure
UpstreamErrors == {"", "timeout"}

\* the text the chat completion returns
GeneratedTexts == {"", "generated answer"}

(***************************************************************************)
(* State                                                                   *)
(***************************************************************************)
VARIABLES
    cpc,            \* the chunker's position: "off", "start", "loop", "done"
    document,       \* the document being chunked
    paragraphs,     \* content.split("\n\n")
    pidx,           \* the index of the next paragraph of the loop
    loop,           \* current_chunk, chunk_number and chunks
    result,         \* the list _chunk_document returns
    store,          \* the rows of the table site_pages
    next_id,        \* the table's next serial id
    runs,           \* the process_framework calls, in the order they started
    q,              \* the query in progress
    nqueries,       \* the number of queries asked
    fchunks,        \* the chunks handed to format_sources
    fsources        \* what format_sources returned, once it has

cvars == <<cpc, document, paragraphs, pidx, loop, result>>
svars == <<store, next_id, runs, q, nqueries>>
fvars == <<fchunks, fsources>>
vars == <<cpc, document, paragraphs, pidx, loop, result,
          store, next_id, runs, q, nqueries, fchunks, fsources>>

FormatOff ==
    /\ fchunks = <<>>
    /\ fsources = None

ChunkerOff ==
    /\ cpc = "off"
    /\ document = TestDocument(<<>>)
    /\ paragraphs = <<>>
    /\ pidx = 1
    /\ loop = LoopInit
    /\ result = <<>>

SystemInit ==
    /\ store = {}
    /\ next_id = 1
    /\ runs = <<>>
    /\ q = QueryIdle
    /\ nqueries = 0

(***************************************************************************)
(* The chunker, one paragraph at a time                                    *)
(***************************************************************************)
ChunkInit ==
    /\ cpc = "start"
    /\ document \in {TestDocument(t) : t \in ChunkerInputs}
    /\ paragraphs = <<>>
    /\ pidx = 1
    /\ loop = LoopInit
    /\ result = <<>>
    /\ SystemInit
    /\ FormatOff

\* lines 106-112
ChunkStart ==
    /\ cpc = "start"
    /\ cpc' = "loop"
    /\ paragraphs' = split_paragraphs(document.content)
    /\ pidx' = 1
    /\ loop' = LoopInit
    /\ UNCHANGED <<document, result>>
    /\ UNCHANGED svars
    /\ UNCHANGED fvars

\* lines 114-133: one paragraph
ChunkParagraph ==
    /\ cpc = "loop"
    /\ pidx <= Len(paragraphs)
    /\ loop' = LoopBody(document, loop, paragraphs[pidx])
    /\ pidx' = pidx + 1
    /\ UNCHANGED <<cpc, document, paragraphs, result>>
    /\ UNCHANGED svars
    /\ UNCHANGED fvars

\* lines 135-146
ChunkFinish ==
    /\ cpc = "loop"
    /\ pidx > Len(paragraphs)
    /\ result' = LastChunk(document, loop)
    /\ cpc' = "done"
    /\ UNCHANGED <<document, paragraphs, pidx, loop>>
    /\ UNCHANGED svars
    /\ UNCHANGED fvars

ChunkNext == ChunkStart \/ ChunkParagraph \/ ChunkFinish

ChunkSpec == ChunkInit /\ [][ChunkNext]_vars

(***************************************************************************)
(* The indexer: process_framework and _store_in_supabase                   *)
(***************************************************************************)
Active(r) == runs[r].pc \in {"delete", "embed", "insert"}
NoActiveRun == \A r \in 1..Len(runs) : ~Active(r)

\* process_framework(framework) up to the call of _store_in_supabase:
\* the documents are read and chunked
ProcessFramework(framework, files) ==
    /\ Len(runs) < MaxRuns
    /\ LET documents == ReadDocuments(framework, files)
       IN  runs' = Append(runs, [pc |-> AfterRead(documents),
                                 framework |-> framework,
                                 all_chunks |-> AllChunks(documents),
                                 i |-> 0])
    /\ UNCHANGED <<store, next_id, q, nqueries>>
    /\ UNCHANGED cvars
    /\ UNCHANGED fvars

\* a variant that ends the loop after the first batch
NextBatch_OneBatchOnly(chunks, i) ==
    IF i = 0 /\ chunks # <<>> THEN "embed" ELSE "done"

\* the position after the delete, or after batch i was inserted
NextBatch(chunks, i) == IF i < Len(chunks) THEN "embed" ELSE "done"

\* line 164: the rows of the framework are deleted
DeleteExisting(r) ==
    /\ runs[r].pc = "delete"
    /\ store' = DeleteFramework(store, runs[r].framework)
    /\ runs' = [runs EXCEPT ![r].pc = NextBatch(runs[r].all_chunks, 0)]
    /\ UNCHANGED <<next_id, q, nqueries>>
    /\ UNCHANGED cvars
    /\ UNCHANGED fvars

\* line 164 fails: the exception is logged and raised again
DeleteFails(r) ==
    /\ runs[r].pc = "delete"
    /\ runs' = [runs EXCEPT ![r].pc = "failed"]
    /\ UNCHANGED <<store, next_id, q, nqueries>>
    /\ UNCHANGED cvars
    /\ UNCHANGED fvars

\* lines 173-174: every chunk of the batch gets its embedding
EmbedBatch(r) ==
    /\ runs[r].pc = "embed"
    /\ runs' = [runs EXCEPT ![r].pc = "insert"]
    /\ UNCHANGED <<store, next_id, q, nqueries>>
    /\ UNCHANGED cvars
    /\ UNCHANGED fvars

\* lines 173-174: an embedding call of the batch fails
EmbedFails(r) ==
    /\ runs[r].pc = "embed"
    /\ runs' = [runs EXCEPT ![r].pc = "failed"]
    /\ UNCHANGED <<store, next_id, q, nqueries>>
    /\ UNCHANGED cvars
    /\ UNCHANGED fvars

\* line 177: the batch is inserted
InsertBatch(r) ==
    /\ runs[r].pc = "insert"
    /\ LET batch == Batch(runs[r].all_chunks, runs[r].i)
       IN  /\ store' = InsertRows(store, batch, next_id, r)
           /\ next_id' = next_id + Len(batch)
           /\ runs' = [runs EXCEPT
                         ![r].i = @ + batch_size,
                         ![r].pc = NextBatch(runs[r].all_chunks,
                                             runs[r].i + batch_size)]
    /\ UNCHANGED <<q, nqueries>>
    /\ UNCHANGED cvars
    /\ UNCHANGED fvars

\* line 177 fails
InsertFails(r) ==
    /\ runs[r].pc = "insert"
    /\ runs' = [runs EXCEPT ![r].pc = "failed"]
    /\ UNCHANGED <<store, next_id, q, nqueries>>
    /\ UNCHANGED cvars
    /\ UNCHANGED fvars

(***************************************************************************)
(* The query pipeline: RAGEngine.query                                     *)
(***************************************************************************)
\* query(question, framework) is called
QueryStart(framework) ==
    /\ q.pc \in {"idle", "returned", "raised"}
    /\ nqueries < MaxQueries
    /\ nqueries' = nqueries + 1
    /\ q' = [QueryIdle EXCEPT !.pc = "embedding", !.framework = framework]
    /\ UNCHANGED <<store, next_id, runs>>
    /\ UNCHANGED cvars
    /\ UNCHANGED fvars

\* line 83: the query is embedded
QueryEmbed ==
    /\ q.pc = "embedding"
    /\ q' = [q EXCEPT !.pc = "searching", !.calls = Append(@, "embed")]
    /\ UNCHANGED <<store, next_id, runs, nqueries>>
    /\ UNCHANGED cvars
    /\ UNCHANGED fvars

\* line 83 fails with message m
QueryEmbedFails(m) ==
    /\ q.pc = "embedding"
    /\ q' = Catch([q EXCEPT !.calls = Append(@, "embed"), !.failure = Some(m)],
                  RetrievalError(EmbeddingError(m)))
    /\ UNCHANGED <<store, next_id, runs, nqueries>>
    /\ UNCHANGED cvars
    /\ UNCHANGED fvars

\* lines 85-95: match_documents returns cs
QuerySearch ==
    /\ q.pc = "searching"
    /\ \E cs \in SearchResults(store, top_k, lower(q.framework)) :
          q' = AfterRetrieve([q EXCEPT !.calls = Append(@, "search")], cs)
    /\ UNCHANGED <<store, next_id, runs, nqueries>>
    /\ UNCHANGED cvars
    /\ UNCHANGED fvars

\* lines 85-92 fail with message m
QuerySearchFails(m) ==
    /\ q.pc = "searching"
    /\ q' = Catch([q EXCEPT !.calls = Append(@, "search"), !.failure = Some(m)],
                  RetrievalError(m))
    /\ UNCHANGED <<store, next_id, runs, nqueries>>
    /\ UNCHANGED cvars
    /\ UNCHANGED fvars

\* lines 228-236: the answer is generated and the sources are formatted
QueryGenerate(text) ==
    /\ q.pc = "generating"
    /\ q' = Return([q EXCEPT !.calls = Append(@, "generate"),
                             !.generated = Some(text)],
                   SuccessResult(text, q.chunks[1]))
    /\ UNCHANGED <<store, next_id, runs, nqueries>>
    /\ UNCHANGED cvars
    /\ UNCHANGED fvars

\* line 181 fails with message m
QueryGenerateFails(m) ==
    /\ q.pc = "generating"
    /\ q' = Catch([q EXCEPT !.calls = Append(@, "generate"), !.failure = Some(m)],
                  GenerationError(m))
    /\ UNCHANGED <<store, next_id, runs, nqueries>>
    /\ UNCHANGED cvars
    /\ UNCHANGED fvars

(***************************************************************************)
(* The system: the indexer runs one framework after the other (main), the  *)
(* chat interface asks its questions meanwhile                             *)
(***************************************************************************)
Init == ChunkerOff /\ SystemInit /\ FormatOff

Next ==
    \/ \E x \in IndexFrameworks, files \in FileBatches :
          NoActiveRun /\ ProcessFramework(x, files)
    \/ \E r \in 1..Len(runs) : DeleteExisting(r)
    \/ \E r \in 1..Len(runs) : DeleteFails(r)
    \/ \E r \in 1..Len(runs) : EmbedBatch(r)
    \/ \E r \in 1..Len(runs) : EmbedFails(r)
    \/ \E r \in 1..Len(runs) : InsertBatch(r)
    \/ \E r \in 1..Len(runs) : InsertFails(r)
    \/ \E f \in QueryFrameworks : QueryStart(f)
    \/ QueryEmbed
    \/ \E m \in UpstreamErrors : QueryEmbedFails(m)
    \/ QuerySearch
    \/ \E m \in UpstreamErrors : QuerySearchFails(m)
    \/ \E text \in GeneratedTexts : QueryGenerate(text)
    \/ \E m \in UpstreamErrors : QueryGenerateFails(m)

Spec == Init /\ [][Next]_vars

(***************************************************************************)
(* Claims about the chunker (checked under ChunkSpec)                      *)
(***************************************************************************)
ChunkerDone == cpc = "done"

\* the least chunk of cs, from chunk from on, whose content contains p; 0 if none
FirstChunkWith(cs, p, from) ==
    LET C == {c \in from..Len(cs) : Contains(cs[c].content, p)}
    IN  IF C = {} THEN 0 ELSE CHOOSE c \in C : \A d \in C : c <= d

\* C5: the chunk_number values of the emitted chunks are 0, 1, ..., n-1 in
\* emission order, during the loop and in the returned list, also when the
\* first paragraph alone exceeds chunk_size.
C5_ChunkNumbersContiguous ==
    /\ \A i \in 1..Len(loop.chunks) : loop.chunks[i].chunk_number = i - 1
    /\ loop.chunk_number = Len(loop.chunks)
    /\ \A i \in 1..Len(result) : result[i].chunk_number = i - 1

C5_Witness ==
    /\ ChunkerDone
    /\ Len(result) >= 3
    /\ Len(paragraphs[1]) > chunk_size

\* C6 as stated: every paragraph is contained whole in some emitted chunk,
\* and the chunks in which the paragraphs first appear are ordered as the
\* paragraphs are.
C6_ParagraphsWholeInOrder ==
    ChunkerDone =>
        /\ \A j \in 1..Len(paragraphs) : FirstChunkWith(result, paragraphs[j], 1) # 0
        /\ \A i, j \in 1..Len(paragraphs) :
              i < j => FirstChunkWith(result, paragraphs[i], 1)
                          <= FirstChunkWith(result, paragraphs[j], 1)

\* the paragraphs j.. of ps, trimmed, can be found in the chunks from.. of cs,
\* each in the chunk of its predecessor or a later one
RECURSIVE LocatedInOrder(_, _, _, _)
LocatedInOrder(ps, cs, j, from) ==
    IF j > Len(ps) THEN TRUE
    ELSE LET c == FirstChunkWith(cs, strip(ps[j]), from)
         IN  c # 0 /\ LocatedInOrder(ps, cs, j + 1, c)

\* C6 (amended): every paragraph, trimmed of leading and trailing whitespace,
\* is contained in an emitted chunk, and the paragraphs can be located in the
\* chunks in document order: each in the chunk that holds its predecessor or
\* in a later one.
C6_TrimmedParagraphsInOrder ==
    ChunkerDone => LocatedInOrder(paragraphs, result, 1, 1)

C6_Witness ==
    /\ ChunkerDone
    /\ Len(result) >= 2
    /\ \E j \in 1..Len(paragraphs) :
          /\ strip(paragraphs[j]) # paragraphs[j]
          /\ strip(paragraphs[j]) # <<>>

\* C7: for every emitted chunk, summary = content[:200] + "..." where content
\* is the chunk's stored (trimmed) content.
C7_SummaryOfContent ==
    \A i \in 1..Len(result) :
        result[i].summary = Prefix(result[i].content, SummaryLen) \o Ellipsis

\* the document of C8: paragraphs of 10, 10 and 990 characters
Doc_10_10_990 == join(NLNL, <<P_10, P_10, P_990>>)

\* C8 as stated: the document of 10, 10 and 990 characters yields one chunk.
C8_OneChunk ==
    (ChunkerDone /\ document.content = Doc_10_10_990) => Len(result) = 1

\* C8 (amended): the document of 10, 10 and 990 characters yields exactly two
\* chunks: the accumulator holds 24 characters after the two short paragraphs
\* and 24 + 990 > chunk_size, so the third paragraph starts a second chunk.
C8_TwoChunks ==
    (ChunkerDone /\ document.content = Doc_10_10_990) =>
        /\ Len(result) = 2
        /\ result[1].content = join(NLNL, <<P_10, P_10>>)
        /\ result[2].content = join(<<SP>>, <<P_10, P_10>>) \o NLNL \o P_990

C8_Witness == ChunkerDone /\ document.content = Doc_10_10_990

\* C9 as stated: every document longer than chunk_size yields >= 2 chunks.
C9_LongDocumentSplits ==
    (ChunkerDone /\ Len(document.content) > chunk_size) => Len(result) >= 2

\* C9 (amended): every document longer than chunk_size that holds at least
\* one blank-line separator (two paragraphs or more) yields >= 2 chunks.
C9_LongMultiParagraphSplits ==
    (ChunkerDone /\ Len(document.content) > chunk_size /\ Len(paragraphs) >= 2)
        => Len(result) >= 2

C9_Witness ==
    /\ ChunkerDone
    /\ Len(document.content) > chunk_size
    /\ Len(paragraphs) >= 2
    /\ \A j \in 1..Len(paragraphs) : Len(paragraphs[j]) <= chunk_size

\* the last min(chunk_overlap, number of words) words of s, joined by spaces
CarriedWords(s) ==
    LET words == split_ws(s)
        k == Min2(chunk_overlap, Len(words))
    IN  join(<<SP>>, [i \in 1..k |-> words[Len(words) - k + i]])

\* C10: when a chunk is emitted because the next paragraph does not fit, the
\* next accumulator is the last min(chunk_overlap, number of words) words of
\* the emitted accumulator joined by single spaces, then the paragraph; so
\* every chunk after the first begins with that word suffix of its predecessor.
C10_OverlapCarriesLastWords ==
    /\ [](\A i \in 2..Len(loop.chunks) :
             StartsWith(loop.chunks[i].content,
                        CarriedWords(loop.chunks[i - 1].content)))
    /\ [](\A i \in 2..Len(result) :
             StartsWith(result[i].content, CarriedWords(result[i - 1].content)))
    /\ [][Len(loop'.chunks) = Len(loop.chunks) + 1 =>
            loop'.current_chunk =
                CarriedWords(loop.current_chunk) \o NLNL \o paragraphs[pidx] \o NLNL]_vars

C10_Witness ==
    /\ ChunkerDone
    /\ \E i, j \in 1..(Len(result) - 1) :
          /\ Len(split_ws(result[i].content)) > chunk_overlap
          /\ Len(split_ws(result[j].content)) \in 1..(chunk_overlap - 1)

(***************************************************************************)
(* Claims about the query pipeline and the indexer (checked under Spec)    *)
(***************************************************************************)
QueryReturned == q.pc = "returned"

\* C1: every result query returns has either an error and then an empty
\* answer and empty sources, or no error and then the generated text or the
\* canned no-documents message as its answer.
C1_ErrorXorAnswer ==
    QueryReturned =>
        LET r == q.result[1]
        IN  /\ r.error # None => (r.answer = "" /\ r.sources = "")
            /\ r.error = None =>
                  \/ r.answer = NoDocumentsAnswer /\ q.generated = None
                  \/ q.generated = Some(r.answer)

C1_Witness ==
    /\ QueryReturned
    /\ q.result[1].error # None
    /\ q.chunks # None
    /\ q.chunks[1] # <<>>

\* C2: when the embedding call, the search or the generation call fails, query
\* returns {answer: "", sources: "", error: <non-empty string>}; the failure
\* never leaves query as an exception.
C2_FailureBecomesErrorResult ==
    /\ q.pc # "raised"
    /\ q.failure # None =>
          /\ QueryReturned
          /\ q.result[1].answer = ""
          /\ q.result[1].sources = ""
          /\ q.result[1].error # None
          /\ q.result[1].error[1] # ""

C2_Witness ==
    /\ q.failure = Some("")
    /\ q.calls = <<"embed", "search", "generate">>

\* C3: when the search succeeds with zero chunks, query returns the canned
\* answer with empty sources and no error, and no generation call is issued.
C3_EmptyIsSuccess ==
    q.chunks = Some(<<>>) =>
        /\ QueryReturned
        /\ q.result[1].answer = NoDocumentsAnswer
        /\ q.result[1].sources = ""
        /\ q.result[1].error = None
        /\ q.calls = <<"embed", "search">>

C3_Witness ==
    /\ q.chunks = Some(<<>>)
    /\ QueryReturned
    /\ Matching(store, lower(q.framework)) = {}

\* the search of the query in progress returns rows in this step
SearchReturns == q.pc = "searching" /\ q'.chunks # None

\* run r0 is older than a later call for the same framework that ended in one
\* of the positions ended
SupersededBy(r0, framework, ended) ==
    \E r \in (r0 + 1)..Len(runs) :
        runs[r].framework = framework /\ runs[r].pc \in ended

\* C4 as stated: once process_framework(x) has returned, whatever its batch
\* of documents, a search never returns a row stored by an earlier call for x.
C4_SupersedesAlways ==
    [][SearchReturns =>
          \A k \in 1..Len(q'.chunks[1]) :
              ~SupersededBy(q'.chunks[1][k].run, q'.chunks[1][k].metadata.framework,
                            {"done", "skipped"})]_vars

\* C4 (amended): once process_framework(x) has returned for a batch with at
\* least one readable document, a search never returns a row stored by an
\* earlier call for x.
C4_SupersedesWhenDocumentsRead ==
    [][SearchReturns =>
          \A k \in 1..Len(q'.chunks[1]) :
              ~SupersededBy(q'.chunks[1][k].run, q'.chunks[1][k].metadata.framework,
                            {"done"})]_vars

C4_Witness ==
    /\ Len(runs) >= 2
    /\ runs[1].pc = "done"
    /\ runs[1].all_chunks # <<>>
    /\ runs[2].pc = "done"
    /\ runs[2].framework = runs[1].framework
    /\ q.chunks # None
    /\ \E k \in 1..Len(q.chunks[1]) : q.chunks[1][k].run = 2

(***************************************************************************)
(* Further claims about the chunker (checked under ChunkSpec)              *)
(***************************************************************************)
\* C11: a document whose content is empty yields zero chunks.
C11_EmptyDocumentNoChunks ==
    (ChunkerDone /\ document.content = <<>>) => result = <<>>

\* C19: when every paragraph of the document is at most chunk_size characters
\* long, every emitted chunk is at most chunk_size characters long, the
\* separators of its paragraphs apart.
C19_ChunksWithinChunkSize ==
    (ChunkerDone /\ \A j \in 1..Len(paragraphs) : Len(paragraphs[j]) <= chunk_size)
        => \A i \in 1..Len(result) :
              Len(result[i].content) <= chunk_size + Len(NLNL) * Len(paragraphs)

(***************************************************************************)
(* format_sources on its own                                               *)
(***************************************************************************)
FormatInit ==
    /\ ChunkerOff
    /\ SystemInit
    /\ fchunks \in SourceLists
    /\ fsources = None

\* rag_engine.py lines 195-203
FormatSources ==
    /\ fsources = None
    /\ fsources' = Some(format_sources(fchunks))
    /\ UNCHANGED fchunks
    /\ UNCHANGED cvars
    /\ UNCHANGED svars

FormatNext == FormatSources

FormatSpec == FormatInit /\ [][FormatNext]_vars

\* the line of one chunk
SourceLine(chunk) == "- [" \o chunk.title \o "](" \o chunk.url \o ")"

\* the first n lines, each after the first preceded by a line break
RECURSIVE LinesUpTo(_, _)
LinesUpTo(chunks, n) ==
    IF n = 0 THEN ""
    ELSE IF n = 1 THEN SourceLine(chunks[1])
         ELSE LinesUpTo(chunks, n - 1) \o "\n" \o SourceLine(chunks[n])

RECURSIVE TotalLength(_, _)
TotalLength(chunks, n) ==
    IF n = 0 THEN 0 ELSE TotalLength(chunks, n - 1) + Len(SourceLine(chunks[n]))

\* C12: format_sources returns "" for no chunk, and for N chunks the N lines
\* "- [title_i](url_i)" in input order, one per chunk, separated by line
\* breaks: nothing is deduplicated, dropped or reordered.
C12_OneLinePerChunkInOrder ==
    fsources # None =>
        /\ fchunks = <<>> => fsources[1] = ""
        /\ fsources[1] = LinesUpTo(fchunks, Len(fchunks))
        /\ fchunks # <<>> =>
              Len(fsources[1]) = TotalLength(fchunks, Len(fchunks)) + Len(fchunks) - 1

C12_Witness ==
    /\ fsources # None
    /\ Len(fchunks) >= 3
    /\ fchunks[1] = fchunks[3]
    /\ fchunks[2] # fchunks[1]

(***************************************************************************)
(* Further claims about the query pipeline and the indexer (under Spec)    *)
(***************************************************************************)
CallOrder == <<"embed", "search", "generate">>

\* the step issues the call named call
Issues(call) == q'.calls = Append(q.calls, call)

\* C15: a query issues at most one embedding call, one search and one
\* generation call, in that order; the search follows a successful embedding,
\* the generation a successful search with a non-empty result, and after a
\* failure the query issues no further call.
C15_OneCallEachInOrder ==
    /\ [](/\ Len(q.calls) <= Len(CallOrder)
          /\ q.calls = SubSeq(CallOrder, 1, Len(q.calls)))
    /\ [][/\ Issues("search") => (q.calls = <<"embed">> /\ q.failure = None)
          /\ Issues("generate") =>
                /\ q.calls = <<"embed", "search">>
                /\ q.failure = None
                /\ q.chunks # None
                /\ q.chunks[1] # <<>>
          /\ q.failure # None =>
                \/ q'.calls = q.calls
                \/ nqueries' = nqueries + 1 /\ q'.calls = <<>>]_vars

C15_Witness ==
    /\ nqueries = 2
    /\ QueryReturned
    /\ q.failure # None
    /\ q.calls = <<"embed", "search">>

\* the query returned after its embedding call or its search failed
RetrievalFailed ==
    /\ QueryReturned
    /\ q.failure # None
    /\ q.calls \in {<<"embed">>, <<"embed", "search">>}

\* C16 as stated: the error of the result is the underlying message itself.
C16_ErrorIsMessageVerbatim ==
    RetrievalFailed => q.result[1].error = q.failure

\* C16 (amended): the error of the result is the underlying message behind
\* the prefix of retrieve_documents, and for the embedding call behind the
\* prefix of _generate_embedding as well.
C16_ErrorIsPrefixedMessage ==
    RetrievalFailed =>
        LET m == q.failure[1]
        IN  /\ q.calls = <<"embed", "search">> =>
                  q.result[1].error = Some("Error in document retrieval: " \o m)
            /\ q.calls = <<"embed">> =>
                  q.result[1].error =
                      Some("Error in document retrieval: Error generating embedding: " \o m)

C16_Witness ==
    /\ RetrievalFailed
    /\ q.failure = Some("timeout")
    /\ q.calls = <<"embed">>

BatchNext ==
    \/ \E files \in LargeFileBatches :
          NoActiveRun /\ ProcessFramework("x", files)
    \/ \E r \in 1..Len(runs) : DeleteExisting(r)
    \/ \E r \in 1..Len(runs) : DeleteFails(r)
    \/ \E r \in 1..Len(runs) : EmbedBatch(r)
    \/ \E r \in 1..Len(runs) : EmbedFails(r)
    \/ \E r \in 1..Len(runs) : InsertBatch(r)
    \/ \E r \in 1..Len(runs) : InsertFails(r)

BatchSpec == Init /\ [][BatchNext]_vars

\* the chunk a stored row was made from
ChunkOf(row) ==
    [url |-> row.url, chunk_number |-> row.chunk_number, title |-> row.title,
     content |-> row.content, summary |-> row.summary, metadata |-> row.metadata]

\* the rows stored for framework are those of run r for exactly chunks, each
\* chunk once and with its embedding
HoldsExactly(rows, framework, r, chunks) ==
    LET m == ById(Matching(rows, framework))
    IN  /\ Len(m) = Len(chunks)
        /\ \A k \in 1..Len(m) :
              /\ ChunkOf(m[k]) = chunks[k]
              /\ m[k].run = r
              /\ m[k].embedding

\* run r fails while embedding or inserting a batch
FailsInBatch(r) ==
    /\ runs[r].pc \in {"embed", "insert"}
    /\ runs'[r].pc = "failed"

\* C13: when embedding or inserting fails in batch k of a run for x, the run
\* ends failed and processes nothing more, and the store holds for x exactly
\* the chunks of batches 0..k-1 of this run.
C13_FailureKeepsEarlierBatches ==
    /\ [][\A r \in 1..Len(runs) :
             FailsInBatch(r) =>
                 /\ runs'[r].i = runs[r].i
                 /\ HoldsExactly(store', runs[r].framework, r,
                                 SubSeq(runs[r].all_chunks, 1, runs[r].i))]_vars
    /\ [][\A r \in 1..Len(runs) :
             runs[r].pc = "failed" =>
                 /\ runs'[r] = runs[r]
                 /\ (r = Len(runs) /\ Len(runs') = Len(runs)) => store' = store]_vars

C13_Witness ==
    /\ Len(runs) = 2
    /\ runs[1].pc = "done"
    /\ runs[1].all_chunks # <<>>
    /\ runs[2].pc = "failed"
    /\ runs[2].i = 2 * batch_size
    /\ Cardinality(Matching(store, "x")) = 2 * batch_size

\* run r returns without a failure
Completes(r) ==
    /\ runs[r].pc \in {"delete", "embed", "insert"}
    /\ runs'[r].pc = "done"

\* C14 as stated: when process_framework(x) returns without a failure, the
\* rows stored for x are exactly the chunks of the documents read, none
\* included.
C14_CompleteRunStoresAllChunks ==
    [][/\ \A r \in 1..Len(runs) :
             Completes(r) =>
                 HoldsExactly(store', runs[r].framework, r, runs[r].all_chunks)
       /\ (Len(runs') > Len(runs) /\ runs'[Len(runs')].pc = "skipped") =>
             HoldsExactly(store', runs'[Len(runs')].framework, Len(runs'), <<>>)]_vars

\* C14 (amended): when process_framework(x) has read at least one document
\* and returns without a failure, the rows stored for x are exactly the
\* chunks of the documents read, each once and with its embedding, whatever
\* their number is to the batch size.
C14_CompleteRunWithDocumentsStoresAllChunks ==
    [][\A r \in 1..Len(runs) :
          Completes(r) =>
              HoldsExactly(store', runs[r].framework, r, runs[r].all_chunks)]_vars

C14_Witness ==
    /\ Len(runs) = 2
    /\ runs[1].pc = "done"
    /\ Len(runs[1].all_chunks) = 2 * batch_size + 1
    /\ runs[2].pc = "done"
    /\ Len(runs[2].all_chunks) = batch_size
    /\ Cardinality(store) = batch_size

(***************************************************************************)
(* Questions asked while a framework is indexed again                      *)
(***************************************************************************)
\* lines 85-95, with the answers of SearchSamples
QuerySearchSampled ==
    /\ q.pc = "searching"
    /\ \E cs \in SearchSamples(store, top_k, lower(q.framework)) :
          q' = AfterRetrieve([q EXCEPT !.calls = Append(@, "search")], cs)
    /\ UNCHANGED <<store, next_id, runs, nqueries>>
    /\ UNCHANGED cvars
    /\ UNCHANGED fvars

\* main indexes the framework, and later indexes it once more
RaceNext ==
    \/ \E files \in LargeFileBatches :
          /\ NoActiveRun
          /\ Len(runs) <= 1
          /\ ProcessFramework("x", files)
    \/ \E r \in 1..Len(runs) : DeleteExisting(r)
    \/ \E r \in 1..Len(runs) : DeleteFails(r)
    \/ \E r \in 1..Len(runs) : EmbedBatch(r)
    \/ \E r \in 1..Len(runs) : EmbedFails(r)
    \/ \E r \in 1..Len(runs) : InsertBatch(r)
    \/ \E r \in 1..Len(runs) : InsertFails(r)
    \/ QueryStart("X")
    \/ QueryEmbed
    \/ \E m \in UpstreamErrors : QueryEmbedFails(m)
    \/ QuerySearchSampled
    \/ \E m \in UpstreamErrors : QuerySearchFails(m)
    \/ \E text \in GeneratedTexts : QueryGenerate(text)
    \/ \E m \in UpstreamErrors : QueryGenerateFails(m)

RaceSpec == Init /\ [][RaceNext]_vars

\* the rows of the sequence cs
RowsOf(cs) == {cs[k] : k \in 1..Len(cs)}

\* C17: a search for framework x issued while one run indexes x again sees the
\* rows stored before the run, all of them, or no row, or the rows of the
\* batches the run has inserted so far, whole batches only; its answer never
\* holds a row stored before the run next to a row of the run.
C17_SearchSeesWholeBatches ==
    /\ [][\A r \in 1..Len(runs') :
             (runs'[r].pc = "delete" /\ (r > Len(runs) \/ runs[r].pc = "delete"))
                 => store' = store]_vars
    /\ [][SearchReturns =>
             \A r \in 1..Len(runs) :
                 (Active(r) /\ runs[r].framework = lower(q.framework)) =>
                     /\ RowsOf(q'.chunks[1]) \subseteq Matching(store, runs[r].framework)
                     /\ \/ /\ runs[r].pc = "delete"
                           /\ \A row \in Matching(store, runs[r].framework) : row.run < r
                        \/ /\ runs[r].pc \in {"embed", "insert"}
                           /\ runs[r].i % batch_size = 0
                           /\ HoldsExactly(store, runs[r].framework, r,
                                           SubSeq(runs[r].all_chunks, 1, runs[r].i))]_vars

C17_Witness ==
    /\ Len(runs) = 2
    /\ runs[1].pc = "done"
    /\ runs[1].all_chunks # <<>>
    /\ runs[2].pc = "embed"
    /\ runs[2].i = batch_size
    /\ q.pc = "generating"
    /\ \A k \in 1..Len(q.chunks[1]) : q.chunks[1][k].run = 2

(***************************************************************************)
(* Two calls of process_framework for one framework at the same time       *)
(***************************************************************************)
ConcNext ==
    \/ \E files \in LargeFileBatches :
          /\ Len(runs) <= 1
          /\ ProcessFramework("x", files)
    \/ \E r \in 1..Len(runs) : DeleteExisting(r)
    \/ \E r \in 1..Len(runs) : DeleteFails(r)
    \/ \E r \in 1..Len(runs) : EmbedBatch(r)
    \/ \E r \in 1..Len(runs) : EmbedFails(r)
    \/ \E r \in 1..Len(runs) : InsertBatch(r)
    \/ \E r \in 1..Len(runs) : InsertFails(r)

ConcSpec == Init /\ [][ConcNext]_vars

\* both calls returned without a failure, each after storing its chunks
BothComplete ==
    /\ Len(runs) = 2
    /\ runs[1].pc = "done"
    /\ runs[2].pc = "done"

\* the rows run r inserted
RunRows(rows, r) == {row \in rows : row.run = r}

\* C20 as stated: when both calls have completed, the rows stored for x are
\* exactly the chunks of one of the two.
C20_OneRunWins ==
    BothComplete =>
        \E r \in 1..2 : HoldsExactly(store, "x", r, runs[r].all_chunks)

\* C20 (amended): when both calls have completed, the store holds for x all
\* the chunks of one call, each once, and of the other call its last batches
\* from some batch on (possibly none, possibly all), each chunk once.
C20_OneRunWholeOtherRunTail ==
    BothComplete =>
        \E r \in 1..2 :
            LET o == 3 - r
            IN  /\ HoldsExactly(RunRows(store, r), "x", r, runs[r].all_chunks)
                /\ \E j \in 0..Len(runs[o].all_chunks) :
                      /\ j % batch_size = 0 \/ j = Len(runs[o].all_chunks)
                      /\ HoldsExactly(RunRows(store, o), "x", o,
                                      SubSeq(runs[o].all_chunks, j + 1,
                                             Len(runs[o].all_chunks)))
                /\ store = RunRows(store, r) \cup RunRows(store, o)

C20_Witness ==
    /\ BothComplete
    /\ Len(runs[1].all_chunks) = 2 * batch_size + 1
    /\ Len(runs[2].all_chunks) = batch_size
    /\ Cardinality(RunRows(store, 1)) = batch_size + 1
    /\ Cardinality(RunRows(store, 2)) = batch_size

====
